---- MODULE Spec2Model ----
(***************************************************************************)
(* Model of conflate/conf_.py: the configuration registry (Conf), its      *)
(* groups (ConfGroup), the mutable windows and the staged overlay          *)
(* (ConfDepot).  The program is single threaded; an action is one call or  *)
(* one entry/exit of a with-block made by the calling code.                *)
(***************************************************************************)
EXTENDS Integers, Sequences, FiniteSets, TLC

\* ---------------------------------------------------------------- bounds
MaxObj == 2          \* ConfGroup objects alive at the same time
MaxDepth == 2        \* with-blocks open at the same time

NameSeq == <<"g1", "g2">>      \* group names, in the order a dict copy visits them
Names == {NameSeq[i] : i \in 1..Len(NameSeq)}
Keys == {"a", "b"}             \* property names (never a __slots__ name)
Vals == {1, 2}                 \* property values
Nil == 0                       \* key absent / no object
Ids == 1..MaxObj

RegNames == {"g1"}             \* the names the caller registers
StageNames == {"g1"}           \* what the loader bodies write
StageKeys == {"b"}

NoProps == [k \in Keys |-> Nil]
PropMaps == [Keys -> Vals \cup {Nil}]

\* def _get_obj_attr(obj, attr): two positional parameters
GetObjAttrParams == 2
\* Conf.__getattr__ calls _get_obj_attr('_conf_depot'): one argument
DepotLookupArgs == 1

VARIABLES
    groups,     \* Conf._conf_groups : group name -> object id (Nil = absent)
    frozen,     \* Conf._is_frozen
    depot,      \* Conf._conf_depot : group name -> staged properties
    c,          \* the module attribute conflate.c is bound
    heap,       \* the ConfGroup objects, by id
    stack,      \* the with-blocks that are open, innermost last
    res,        \* outcome of the last call
    twin        \* the registry made by deepcopy(conf), once it is made

vars == <<groups, frozen, depot, c, heap, stack, res, twin>>

\* ConfGroup._conf names the registry the group consults: "conf" is the
\* registry of the model, "copy" a deep copy of it
FreeObj == [used |-> FALSE, conf |-> "", name |-> "", props |-> NoProps, reg |-> FALSE]

\* no deep copy of the registry has been made
NoTwin == [made |-> FALSE, frozen |-> TRUE,
           depot |-> [n \in Names |-> NoProps], groups |-> [n \in Names |-> Nil]]

\* what the caller sees of a call: the exception raised ("none" when it
\* returns) and the value returned (Nil when there is none)
Outcome(op, exc, ret) == [op |-> op, exc |-> exc, ret |-> ret]
Result(op, exc) == Outcome(op, exc, Nil)

\* Conf.__init__
Init ==
    /\ groups = [n \in Names |-> Nil]
    /\ frozen = TRUE
    /\ depot = [n \in Names |-> NoProps]
    /\ c = FALSE
    /\ heap = [i \in Ids |-> FreeObj]
    /\ stack = <<>>
    /\ res = Result("init", "none")
    /\ twin = NoTwin

Used == {i \in Ids : heap[i].used}
FreeIds == Ids \ Used
\* the k-th object the allocator hands out next
Fresh(k) == CHOOSE i \in FreeIds : Cardinality({j \in FreeIds : j < i}) = k - 1

\* Conf.__contains__
Contains(group_name) == groups[group_name] # Nil

\* ConfGroup.__init__
NewGroup(conf, name, default_properties) ==
    [used |-> TRUE, conf |-> conf, name |-> name,
     props |-> default_properties, reg |-> FALSE]

\* ------------------------------------------------------------ ConfGroup

\* ConfGroup.__getattr__ looking in the staged overlay before the bag
GroupGetattrDraining(g, key) ==
    IF depot[g.name][key] # Nil
    THEN [exc |-> "none", val |-> depot[g.name][key]]
    ELSE IF g.props[key] = Nil
    THEN [exc |-> "UnknownConfError", val |-> Nil]
    ELSE [exc |-> "none", val |-> g.props[key]]

\* ConfGroup.__getattr__
GroupGetattr(g, key) ==
    IF g.props[key] = Nil
    THEN [exc |-> "UnknownConfError", val |-> Nil]
    ELSE [exc |-> "none", val |-> g.props[key]]

\* ConfGroup.__setattr__ with the frozen test moved before the unknown-key test
GroupSetattrFrozenFirst(g, key, value, is_frozen) ==
    IF g.reg
    THEN [exc |-> "none", g |-> [g EXCEPT !.props[key] = value]]
    ELSE IF is_frozen
    THEN [exc |-> "FrozenConfPropError", g |-> g]
    ELSE IF g.props[key] = Nil
    THEN [exc |-> "UnknownConfError", g |-> g]
    ELSE [exc |-> "none", g |-> [g EXCEPT !.props[key] = value]]

\* ConfGroup.__setattr__ for a property name.  The first branch of the code
\* (key in __slots__) is the path of the object's own fields, which the
\* actions below assign directly; Keys holds no slot name.
GroupSetattr(g, key, value, is_frozen) ==
    IF g.reg
    THEN [exc |-> "none", g |-> [g EXCEPT !.props[key] = value]]
    ELSE IF g.props[key] = Nil
    THEN [exc |-> "UnknownConfError", g |-> g]
    ELSE IF is_frozen
    THEN [exc |-> "FrozenConfPropError", g |-> g]
    ELSE [exc |-> "none", g |-> [g EXCEPT !.props[key] = value]]

\* ConfGroup.__deepcopy__
GroupDeepcopy(g) ==
    [used |-> TRUE, conf |-> g.conf, name |-> g.name,
     props |-> g.props, reg |-> g.reg]

\* ----------------------------------------------------------------- Conf

Idx(n) == CHOOSE i \in 1..Len(NameSeq) : NameSeq[i] = n
Rank(n) == Cardinality({j \in 1..(Idx(n) - 1) : groups[NameSeq[j]] # Nil})
NumGroups == Cardinality({n \in Names : groups[n] # Nil})

\* Conf._backup: deepcopy(self._conf_groups); every group gets a new object
BackupMap == [n \in Names |-> IF groups[n] = Nil THEN Nil ELSE Fresh(Rank(n) + 1)]
BackupHeap ==
    [i \in Ids |->
        IF \E n \in Names : BackupMap[n] = i
        THEN GroupDeepcopy(heap[groups[CHOOSE n \in Names : BackupMap[n] = i]])
        ELSE heap[i]]

\* Conf._restore leaving the mapping the registry has
RestoreKeepGroups(conf_groups) == groups

\* Conf._restore
Restore(conf_groups) == conf_groups

\* Conf.__getattr__.  Line 122 raises TypeError before the membership test;
\* the drain of line 133 uses item assignment, which ConfGroup does not have.
ConfGetattr(group_name) ==
    IF DepotLookupArgs # GetObjAttrParams
    THEN [exc |-> "TypeError", id |-> Nil]
    ELSE IF groups[group_name] = Nil
    THEN [exc |-> "UnknownConfError", id |-> Nil]
    ELSE IF \E k \in Keys : depot[group_name][k] # Nil
    THEN [exc |-> "TypeError", id |-> Nil]
    ELSE [exc |-> "none", id |-> groups[group_name]]

\* registry[name].key : Conf.__getattr__ then ConfGroup.__getattr__
RegistryRead(group_name, key) ==
    LET r == ConfGetattr(group_name)
    IN IF r.exc # "none"
       THEN [exc |-> r.exc, val |-> Nil]
       ELSE GroupGetattr(heap[r.id], key)

Top == stack[Len(stack)]
Pop == SubSeq(stack, 1, Len(stack) - 1)
\* a mutable window (local_env or a source load) is open
WindowOpen == \E j \in 1..Len(stack) : stack[j].kind \in {"local", "load"}
\* an open with-block
Frame(kind, backup, id) == [kind |-> kind, backup |-> backup, id |-> id]
NoBackup == [n \in Names |-> Nil]
\* group objects the calling code holds: the registered groups and the
\* groups yielded by the handles that are held (with ... as group)
Held(stk) == {stk[j].id : j \in 1..Len(stk)} \ {Nil}
\* the groups of the deep copy of the registry
TwinGroups == {twin.groups[n] : n \in Names} \ {Nil}
Refs == ({groups[n] : n \in Names} \cup Held(stack) \cup TwinGroups) \ {Nil}
\* objects still referenced by the registry, a held handle or a snapshot
Live(grps, stk) ==
    ({grps[n] : n \in Names} \cup Held(stk) \cup TwinGroups
       \cup {stk[j].backup[n] : j \in 1..Len(stk), n \in Names}) \ {Nil}
\* reference counting frees what nothing refers to
Collect(h, grps, stk) ==
    [i \in Ids |-> IF i \in Live(grps, stk) THEN h[i] ELSE FreeObj]

\* Conf.add_group without the test of lines 65-67: the group is replaced
AddGroupCallNoCheck(name, defaults) ==
    LET id == IF FreeIds = {} THEN groups[name] ELSE Fresh(1)
    IN [exc |-> "none",
        groups |-> [groups EXCEPT ![name] = id],
        heap |-> [heap EXCEPT ![id] = NewGroup("conf", name, defaults)],
        frozen |-> TRUE]

\* Conf.add_group with a window that puts back the flag it found (a window
\* that counts its depth) instead of assigning True
AddGroupCallReentrant(name, defaults) ==
    IF groups[name] # Nil
    THEN [exc |-> "ConfGroupExistsError",
          groups |-> groups, heap |-> heap, frozen |-> frozen]
    ELSE [exc |-> "none",
          groups |-> [groups EXCEPT ![name] = Fresh(1)],
          heap |-> [heap EXCEPT ![Fresh(1)] = NewGroup("conf", name, defaults)],
          frozen |-> frozen]

\* Conf.add_group(name, **default_properties) as a function of the state:
\* the exception raised and the registry it leaves.  The window of line 69 is
\* entered and left inside the call.
AddGroupCall(name, defaults) ==
    IF groups[name] # Nil
    THEN [exc |-> "ConfGroupExistsError",
          groups |-> groups, heap |-> heap, frozen |-> frozen]
    ELSE [exc |-> "none",
          groups |-> [groups EXCEPT ![name] = Fresh(1)],
          heap |-> [heap EXCEPT ![Fresh(1)] = NewGroup("conf", name, defaults)],
          frozen |-> TRUE]

\* conf.add_group(name, ...) called as a statement; with no defaults the
\* returned handle is dropped without being entered
AddGroup(name, defaults) ==
    /\ groups[name] = Nil => FreeIds # {}
    /\ LET r == AddGroupCall(name, defaults)
       IN /\ groups' = r.groups
          /\ heap' = Collect(r.heap, r.groups, stack)
          /\ frozen' = r.frozen
          /\ res' = Result("add_group", r.exc)
    /\ UNCHANGED <<depot, c, stack, twin>>

\* with conf.add_group(name) as group:   add_group with no defaults, then
\* ConfGroup._register_ctx up to the yield
HandleEnter(name) ==
    /\ groups[name] = Nil => (FreeIds # {} /\ Len(stack) < MaxDepth)
    /\ LET r == AddGroupCall(name, NoProps)
           id == r.groups[name]
       IN /\ groups' = r.groups
          /\ frozen' = r.frozen
          /\ IF r.exc = "none"
             THEN /\ heap' = [r.heap EXCEPT ![id].reg = TRUE]
                  /\ stack' = Append(stack, Frame("handle", NoBackup, id))
                  /\ res' = Result("handle_enter", "none")
             ELSE /\ heap' = r.heap
                  /\ stack' = stack
                  /\ res' = Result("add_group", r.exc)
    /\ UNCHANGED <<depot, c, twin>>

\* the block under the handle ends normally: _register_ctx after the yield
HandleExit ==
    /\ stack # <<>> /\ Top.kind = "handle"
    /\ stack' = Pop
    /\ heap' = Collect([heap EXCEPT ![Top.id].reg = FALSE], groups, stack')
    /\ res' = Result("handle_exit", "none")
    /\ UNCHANGED <<groups, frozen, depot, c, twin>>

\* the block under the handle raises: the exception is thrown into the
\* generator at the yield and nothing after the yield runs
HandleFail ==
    /\ stack # <<>> /\ Top.kind = "handle"
    /\ stack' = Pop
    /\ heap' = Collect(heap, groups, stack')
    /\ res' = Result("handle_exit", "BodyError")
    /\ UNCHANGED <<groups, frozen, depot, c, twin>>

\* with conf.local_env():   up to the yield
LocalEnter ==
    /\ Len(stack) < MaxDepth
    /\ NumGroups <= Cardinality(FreeIds)
    /\ heap' = BackupHeap
    /\ frozen' = FALSE
    /\ stack' = Append(stack, Frame("local", BackupMap, Nil))
    /\ res' = Result("local_enter", "none")
    /\ UNCHANGED <<groups, depot, c, twin>>

\* the normal exit of a local_env block as a function of the state:
\* _is_frozen = True (line 105), then _restore(conf_groups_backup) (line 99)
LocalExitCall ==
    [groups |-> Restore(Top.backup),
     frozen |-> TRUE,
     heap |-> Collect(heap, Restore(Top.backup), Pop)]

\* the local_env block ends normally
LocalExit ==
    /\ stack # <<>> /\ Top.kind = "local"
    /\ LET r == LocalExitCall
       IN /\ frozen' = r.frozen
          /\ groups' = r.groups
          /\ heap' = r.heap
    /\ stack' = Pop
    /\ res' = Result("local_exit", "none")
    /\ UNCHANGED <<depot, c, twin>>

\* the local_env block raises: neither generator has a try/finally
LocalFail ==
    /\ stack # <<>> /\ Top.kind = "local"
    /\ stack' = Pop
    /\ heap' = Collect(heap, groups, stack')
    /\ res' = Result("local_exit", "BodyError")
    /\ UNCHANGED <<groups, frozen, depot, c, twin>>

\* load_conf_file / load_conf_module up to the loader body
LoadEnter ==
    /\ Len(stack) < MaxDepth
    /\ frozen' = FALSE
    /\ c' = TRUE
    /\ stack' = Append(stack, Frame("load", NoBackup, Nil))
    /\ res' = Result("load_enter", "none")
    /\ UNCHANGED <<groups, depot, heap, twin>>

\* the loader body returns: del conflate.c, then _is_frozen = True; when the
\* binding is already gone the del raises and the flag is left alone
LoadExit ==
    /\ stack # <<>> /\ Top.kind = "load"
    /\ IF c
       THEN /\ c' = FALSE
            /\ frozen' = TRUE
            /\ res' = Result("load_exit", "none")
       ELSE /\ res' = Result("load_exit", "AttributeError")
            /\ UNCHANGED <<c, frozen>>
    /\ stack' = Pop
    /\ UNCHANGED <<groups, depot, heap, twin>>

\* the loader body raises
LoadFail ==
    /\ stack # <<>> /\ Top.kind = "load"
    /\ stack' = Pop
    /\ res' = Result("load_exit", "BodyError")
    /\ UNCHANGED <<groups, frozen, depot, c, heap, twin>>

\* self._conf._is_frozen, read through the group's back-reference
IsFrozen(conf) == IF conf = "copy" THEN twin.frozen ELSE frozen

\* group.key = value on a group object the caller holds
Write(id, key, value) ==
    /\ id \in Refs
    /\ LET r == GroupSetattr(heap[id], key, value, IsFrozen(heap[id].conf))
       IN /\ heap' = [heap EXCEPT ![id] = r.g]
          /\ res' = Result("write", r.exc)
    /\ UNCHANGED <<groups, frozen, depot, c, stack, twin>>

\* group.key on a group object the caller holds
Read(id, key) ==
    /\ id \in Refs
    /\ LET r == GroupGetattr(heap[id], key)
       IN res' = Outcome("read", r.exc, r.val)
    /\ UNCHANGED <<groups, frozen, depot, c, heap, stack, twin>>

\* conf.<group_name>
Get(group_name) ==
    /\ LET r == ConfGetattr(group_name)
       IN res' = Result("get", r.exc)
    /\ UNCHANGED <<groups, frozen, depot, c, heap, stack, twin>>

\* group_name in conf
Has(group_name) ==
    /\ res' = Outcome("has", "none", IF Contains(group_name) THEN 1 ELSE Nil)
    /\ UNCHANGED <<groups, frozen, depot, c, heap, stack, twin>>

\* ConfDepot: c.<group_name>.<key> = value as a function of the state: the
\* value is recorded in the overlay and no group is touched
StageCall(group_name, key, value) ==
    [depot |-> [depot EXCEPT ![group_name][key] = value], heap |-> heap]

\* c.<group_name>.<key> = value through the published binding
Stage(group_name, key, value) ==
    /\ c
    /\ group_name \in StageNames /\ key \in StageKeys
    /\ LET r == StageCall(group_name, key, value)
       IN /\ depot' = r.depot
          /\ heap' = r.heap
    /\ res' = Result("stage", "none")
    /\ UNCHANGED <<groups, frozen, c, stack, twin>>

\* Conf.__deepcopy__ without the loop of lines 158-159: the copied groups
\* keep the back-reference of the groups they were copied from
ConfDeepcopyCallNoRebind ==
    [twin |-> [made |-> TRUE, frozen |-> frozen, depot |-> depot,
               groups |-> BackupMap],
     heap |-> BackupHeap]

\* Conf.__deepcopy__ as a function of the state: the new registry and the
\* heap with its groups.  deepcopy(self._conf_groups) is the copy _backup
\* makes; the loop then points every copied group at the new registry.
ConfDeepcopyCall ==
    [twin |-> [made |-> TRUE, frozen |-> frozen, depot |-> depot,
               groups |-> BackupMap],
     heap |-> [i \in Ids |->
                 IF \E n \in Names : BackupMap[n] = i
                 THEN [BackupHeap[i] EXCEPT !.conf = "copy"]
                 ELSE heap[i]]]

\* copy.deepcopy(conf), the copy being kept by the caller
ConfDeepcopy ==
    /\ ~twin.made
    /\ NumGroups <= Cardinality(FreeIds)
    /\ LET r == ConfDeepcopyCall
       IN /\ twin' = r.twin
          /\ heap' = r.heap
    /\ res' = Result("deepcopy", "none")
    /\ UNCHANGED <<groups, frozen, depot, c, stack>>

Next ==
    \/ \E n \in RegNames, d \in PropMaps : AddGroup(n, d)
    \/ \E n \in RegNames : HandleEnter(n)
    \/ HandleExit
    \/ HandleFail
    \/ LocalEnter
    \/ LocalExit
    \/ LocalFail
    \/ LoadEnter
    \/ LoadExit
    \/ LoadFail
    \/ \E i \in Ids, k \in Keys, v \in Vals : Write(i, k, v)
    \/ \E i \in Ids, k \in Keys : Read(i, k)
    \/ \E n \in Names : Get(n)
    \/ \E n \in Names : Has(n)
    \/ \E n \in Names, k \in Keys, v \in Vals : Stage(n, k, v)

Spec == Init /\ [][Next]_vars

\* the registry and a deep copy of it, both used by the calling code
NextCopy ==
    \/ \E n \in RegNames, d \in PropMaps : AddGroup(n, d)
    \/ \E n \in RegNames : HandleEnter(n)
    \/ HandleExit
    \/ HandleFail
    \/ LoadEnter
    \/ LoadExit
    \/ LoadFail
    \/ \E i \in Ids, k \in Keys, v \in Vals : Write(i, k, v)
    \/ \E i \in Ids, k \in Keys : Read(i, k)
    \/ ConfDeepcopy

SpecCopy == Init /\ [][NextCopy]_vars

\* ------------------------------------------------------------- helpers

\* the step closes the innermost with-block, which is of this kind
Closes(kind) == stack # <<>> /\ Top.kind = kind /\ stack' = Pop
\* what registry[name].key is expected to give for a stored value
Reads(value) == [exc |-> "none", val |-> value]

\* ---------------------------------------------------------------- C1
\* C1: when a local_env block exits normally, every property of every group
\* of the snapshot, read through the registry (conf.<name>.<key>), has the
\* value it had when the block was entered.
C1_RollbackReadThroughRegistry ==
    [][(Closes("local") /\ res'.exc = "none") =>
          \A n \in Names, k \in Keys :
              (Top.backup[n] # Nil /\ heap[Top.backup[n]].props[k] # Nil) =>
                  RegistryRead(n, k)' = Reads(heap[Top.backup[n]].props[k])]_vars

\* ---------------------------------------------------------------- C2
\* C2: when the body of a local_env block raises, the snapshot is restored
\* and the registry is frozen again by the time the failure has propagated:
\* the registry holds the groups of the snapshot with the snapshot's values.
C2_RollbackOnFailure ==
    [][(Closes("local") /\ res'.exc = "BodyError") =>
          /\ frozen'
          /\ \A n \in Names :
                /\ (groups'[n] = Nil) = (Top.backup[n] = Nil)
                /\ Top.backup[n] # Nil =>
                      heap'[groups'[n]].props = heap[Top.backup[n]].props]_vars

\* ---------------------------------------------------------------- C3
\* C3: with no mutable window open, a write to a declared property of a
\* registered group that is not registering raises FrozenConfPropError and
\* changes no property of any group.
C3_FrozenWriteGate ==
    [][\A i \in Ids, k \in Keys, v \in Vals :
          (/\ Write(i, k, v)
           /\ ~WindowOpen
           /\ \E n \in Names : groups[n] = i
           /\ ~heap[i].reg
           /\ heap[i].props[k] # Nil)
          => (res'.exc = "FrozenConfPropError" /\ heap' = heap)]_vars

\* ---------------------------------------------------------------- C4
\* C4: a write to a key that is not in the bag of a group that is not
\* registering raises UnknownConfError, frozen or not, and adds no key.
C4_UnknownKeyWrite ==
    \A i \in Refs, k \in Keys, v \in Vals :
        (~heap[i].reg /\ heap[i].props[k] = Nil) =>
            GroupSetattr(heap[i], k, v, frozen)
               = [exc |-> "UnknownConfError", g |-> heap[i]]

\* an undeclared key was refused inside an open mutable window
C4_Witness ==
    /\ res.op = "write" /\ res.exc = "UnknownConfError"
    /\ WindowOpen /\ ~frozen
    /\ \E n \in Names : groups[n] # Nil /\ ~heap[groups[n]].reg

C6_OverlayDrain ==
    [][\A n \in Names, k \in Keys :
          (/\ Get(n)
           /\ groups[n] # Nil
           /\ heap[groups[n]].props[k] = Nil
           /\ depot[n][k] # Nil)
          => (res'.exc = "none" /\ heap'[groups[n]].props[k] = depot[n][k])]_vars

\* ---------------------------------------------------------------- C7
\* C7: when the loader body raises, conflate.c is unbound and the registry
\* is frozen again once the failure has reached the caller, and what was
\* staged stays staged.
C7_LoadFailureCleanup ==
    [][(Closes("load") /\ res'.exc = "BodyError")
          => (~c' /\ frozen' /\ depot' = depot)]_vars

\* ---------------------------------------------------------------- C8
\* C8: a mutable window that is not nested inside another one (local_env, a
\* source load, or the window add_group opens) leaves the frozen flag as the
\* window found it.  The registry is created frozen and only the windows
\* assign the flag, so this is: the flag is TRUE whenever no window is open.
C8_FreezeIdempotent == ~WindowOpen => frozen

\* ---------------------------------------------------------------- C9
\* C9: while the handle of a group is held every write on the group is
\* stored, frozen or not; once the handle is released a write of a new key
\* raises UnknownConfError, a write of a declared key on a frozen registry
\* raises FrozenConfPropError, and the release changes no property.
C9_RegistrationHandle ==
    [][/\ \A i \in Ids, k \in Keys, v \in Vals :
             Write(i, k, v) =>
                IF i \in Held(stack)
                THEN res'.exc = "none" /\ heap'[i].props[k] = v
                ELSE (\A h \in Held(stack) : heap[h].name # heap[i].name) =>
                     /\ heap[i].props[k] = Nil => res'.exc = "UnknownConfError"
                     /\ (heap[i].props[k] # Nil /\ frozen)
                           => res'.exc = "FrozenConfPropError"
       /\ (Closes("handle") /\ \E n \in Names : groups[n] = Top.id)
             => heap'[Top.id].props = heap[Top.id].props]_vars

\* --------------------------------------------------------------- C10
\* C10: conf.<name> for a name that is not registered raises UnknownConfError,
\* a read of a key that is not in the bag of a group raises UnknownConfError,
\* and neither changes the groups, a bag, the overlay or the frozen flag.
C10_UnknownReads ==
    [][/\ \A n \in Names :
             (Get(n) /\ groups[n] = Nil)
             => (res'.exc = "UnknownConfError"
                   /\ UNCHANGED <<groups, heap, depot, frozen>>)
       /\ \A i \in Ids, k \in Keys :
             (Read(i, k) /\ heap[i].props[k] = Nil)
             => (res'.exc = "UnknownConfError"
                   /\ UNCHANGED <<groups, heap, depot, frozen>>)]_vars

C13_ReadYourWrite ==
    (Len(stack) = 1 /\ Top.kind = "local" /\ ~frozen) =>
       \A n \in Names, k \in Keys, v \in Vals :
          (/\ groups[n] # Nil
           /\ ~heap[groups[n]].reg
           /\ heap[groups[n]].props[k] # Nil)
          => LET r == ConfGetattr(n)
             IN /\ r.exc = "none"
                /\ LET w == GroupSetattr(heap[r.id], k, v, IsFrozen(heap[r.id].conf))
                   IN /\ w.exc = "none"
                      /\ GroupGetattr(w.g, k) = Reads(v)

\* --------------------------------------------------------------- C14
\* C14: when a local_env block in which a source load staged values has
\* exited, conf.<group>.<key> gives for every key that has a staged value
\* what the group held for that key when the block was entered: the overlay
\* is put back with the groups.
C14_RollbackCoversOverlay ==
    [][(Closes("local") /\ res'.exc = "none") =>
          \A n \in Names, k \in Keys :
              (Top.backup[n] # Nil /\ depot[n][k] # Nil) =>
                 /\ RegistryRead(n, k)' = GroupGetattr(heap[Top.backup[n]], k)
                 /\ depot'[n][k] \in {Nil, heap[Top.backup[n]].props[k]}]_vars

\* --------------------------------------------------------------- C15
\* C15: conf.<group> leaves the overlay as it is, and every value staged for
\* the group is in the group's bag after the call, on every call.
C15_OverlayRetention ==
    [][\A n \in Names :
          (Get(n) /\ groups[n] # Nil) =>
             /\ depot' = depot
             /\ \A k \in Keys :
                   depot[n][k] # Nil => heap'[groups[n]].props[k] = depot[n][k]]_vars

\* --------------------------------------------------------------- C16
\* C16: a group of the registry's mapping has _is_registering set only
\* while the registration handle of that group is held.
C16_RegisteringOnlyUnderHandle ==
    \A n \in Names :
        (groups[n] # Nil /\ heap[groups[n]].reg)
           => \E h \in Held(stack) : heap[h].name = n

\* --------------------------------------------------------------- C17
\* C17: when a local_env block has exited, the names in the registry are
\* those of the snapshot: a group registered in the body is absent again
\* (name in conf is False, so add_group accepts the name).
C17_RollbackRestoresGroupSet ==
    [][Closes("local") =>
          \A n \in Names : Contains(n)' = (Top.backup[n] # Nil)]_vars

\* --------------------------------------------------------------- C18
\* C18: after deepcopy(conf) no group object belongs to both registries, so
\* a write on a group of one changes no value read from the other, and a
\* write on a group is accepted or refused by the frozen flag of the registry
\* whose mapping holds the group, whatever the flag of the other one.
C18_CloneIsolation ==
    twin.made =>
       /\ TwinGroups \cap (({groups[n] : n \in Names} \cup Held(stack)) \ {Nil}) = {}
       /\ \A i \in Refs, k \in Keys, v \in Vals :
             LET own  == i \in TwinGroups
                 flag == IF own THEN twin.frozen ELSE frozen
                 r    == GroupSetattr(heap[i], k, v, IsFrozen(heap[i].conf))
                 h2   == [heap EXCEPT ![i] = r.g]
             IN /\ r = GroupSetattr(heap[i], k, v, flag)
                /\ \A j \in Refs, k2 \in Keys :
                      ((j \in TwinGroups) # own)
                         => GroupGetattr(h2[j], k2) = GroupGetattr(heap[j], k2)

\* a write on a group of the copy was refused as frozen while the registry
\* it was copied from was inside a mutable window
C18_Witness ==
    /\ twin.made /\ twin.frozen /\ ~frozen
    /\ res.op = "write" /\ res.exc = "FrozenConfPropError"

\* --------------------------------------------------------------- C19
\* C19: conflate.c is bound exactly while a source load is in progress:
\* unbound when no load is open, bound while one is, an outer load whose
\* body ran another load to its end included.
C19_BindingLifetime ==
    c = (\E j \in 1..Len(stack) : stack[j].kind = "load")

====
